---- MODULE Spec2Model ----
(***************************************************************************)
(* The task manager of final.py, database.py and with_mail.py: two tables  *)
(* (users, tasks), the per-browser session state of Streamlit, and one     *)
(* action per UI event handler.  A Streamlit script run executes the whole *)
(* script top to bottom for one UI event; the sequential specifications   *)
(* take a run as one step, the race specification splits Add Task at the   *)
(* point between its count query and its INSERT.                        *)
(***************************************************************************)
EXTENDS Integers, FiniteSets, Sequences, TLC

VARIABLES
    variant,     \* which script is deployed: "final", "database", "with_mail"
    users,       \* table users: set of rows
    tasks,       \* table tasks: set of rows
    nextUserId,  \* users.id sequence (AUTOINCREMENT / SERIAL)
    nextTaskId,  \* tasks.id sequence (AUTOINCREMENT / SERIAL)
    session,     \* st.session_state of every browser session
    pending,     \* script runs that passed the quota check and have not inserted yet
    msg,         \* the st.success / st.error / st.warning text of the last run
    probe,       \* the direct data-layer call sequence under observation
    signedUp,    \* history: what every successful signup was given
    mail,        \* the send_email call of the last run and whether it was delivered
    deleting     \* script runs that listed a task and are about to call delete_task

vars == <<variant, users, tasks, nextUserId, nextTaskId, session, pending, msg, probe,
          signedUp, mail, deleting>>

----------------------------------------------------------------------------
(* Bounds of the model *)

MaxTasks == 11
MaxTasksRace == 12
MaxTasksData == 2
MaxTasksUsers == 1
MaxTasksDelete == 3

Sessions == {"s1", "s2"}

(* Inputs of the forms *)
UserTypes == {"Premium", "Regular", "Restricted"}
NoEmail == "-"
None == "None"

----------------------------------------------------------------------------
(* Helper functions of the data layer *)

\* str.strip() on a title given as a sequence of characters
RECURSIVE LStrip(_)
LStrip(str) ==
    IF str # <<>> /\ Head(str) = " " THEN LStrip(Tail(str)) ELSE str

RECURSIVE RStrip(_)
RStrip(str) ==
    IF str # <<>> /\ str[Len(str)] = " " THEN RStrip(SubSeq(str, 1, Len(str) - 1)) ELSE str

Strip(str) == RStrip(LStrip(str))

TasksOf(user_id) == {t \in tasks : t.user_id = user_id}

\* faulty variant: a running total of the tasks ever added
get_task_count_running(user_id) == nextTaskId - 1

\* SELECT COUNT of the user's rows, read anew by every run
get_task_count(user_id) == Cardinality(TasksOf(user_id))

get_categories(user_id) == {t.category : t \in TasksOf(user_id)}

\* faulty variant: the new id is one more than the number of rows
add_task_reusing_id(table, id, user_id, title, description, due_date, category, priority) ==
    table \cup {[id |-> Cardinality(table) + 1, user_id |-> user_id, title |-> title,
                 description |-> description, due_date |-> due_date,
                 category |-> category, priority |-> priority,
                 completed |-> FALSE]}

\* INSERT INTO tasks; id is the value the AUTOINCREMENT / SERIAL column draws
add_task(table, id, user_id, title, description, due_date, category, priority) ==
    table \cup {[id |-> id, user_id |-> user_id, title |-> title,
                 description |-> description, due_date |-> due_date,
                 category |-> category, priority |-> priority,
                 completed |-> FALSE]}

\* faulty variant: the uncompleted branch is missing
get_tasks_completed_only(user_id, filter_by, category) ==
    {t \in TasksOf(user_id) :
        /\ (filter_by = "completed" => t.completed)
        /\ (category \in {None, ""} \/ t.category = category)}

\* `if category:` is false for None and for the empty string
get_tasks(user_id, filter_by, category) ==
    {t \in TasksOf(user_id) :
        /\ CASE filter_by = "completed" -> t.completed
             [] filter_by = "uncompleted" -> ~t.completed
             [] OTHER -> TRUE
        /\ (category \in {None, ""} \/ t.category = category)}

\* faulty variant: the UPDATE has no WHERE clause
update_task_status_all(table, task_id, status) ==
    {[t EXCEPT !.completed = status] : t \in table}

update_task_status(table, task_id, status) ==
    {IF t.id = task_id THEN [t EXCEPT !.completed = status] ELSE t : t \in table}

\* faulty variant: the statement also writes completed
update_task_resets_completed(table, task_id, title, description, due_date, category, priority) ==
    {IF t.id = task_id
        THEN [t EXCEPT !.title = title, !.description = description,
                       !.due_date = due_date, !.category = category,
                       !.priority = priority, !.completed = FALSE]
        ELSE t : t \in table}

\* UPDATE tasks SET title, description, due_date, category, priority WHERE id
update_task(table, task_id, title, description, due_date, category, priority) ==
    {IF t.id = task_id
        THEN [t EXCEPT !.title = title, !.description = description,
                       !.due_date = due_date, !.category = category,
                       !.priority = priority]
        ELSE t : t \in table}

delete_task(table, task_id) == {t \in table : t.id # task_id}

\* with_mail.py TASK_LIMIT; Premium is float('inf'), which no count reaches
TASK_LIMIT == [Regular |-> 10, Restricted |-> 5]

\* faulty variant: the comparison is strict
LimitReachedStrict(user_type, count) ==
    user_type \in DOMAIN TASK_LIMIT /\ count > TASK_LIMIT[user_type]

LimitReached(user_type, count) ==
    user_type \in DOMAIN TASK_LIMIT /\ count >= TASK_LIMIT[user_type]

\* the literal 10 of final.py's and database.py's dashboards
DashboardLimit == 10

\* faulty variant: no check at all
QuotaNeverBlocks(user_type, count) == FALSE

\* faulty variant: final.py's comparison is strict
QuotaBlocksStrict(user_type, count) ==
    CASE variant = "final" -> user_type = "Regular" /\ count > DashboardLimit
      [] variant = "database" -> FALSE
      [] variant = "with_mail" -> LimitReached(user_type, count)

\* faulty variant: the tier is not looked at, ten tasks stop every user
QuotaBlocksEveryTier(user_type, count) == count >= DashboardLimit

\* The condition under which the Add Task tab refuses to add.
\*   final.py:     user_type == "Regular" and get_task_count(user_id) >= 10
\*   database.py:  no condition, the tab always adds
\*   with_mail.py: current_task_count >= task_limit
QuotaBlocks(user_type, count) ==
    CASE variant = "final" -> user_type = "Regular" /\ count >= DashboardLimit
      [] variant = "database" -> FALSE
      [] variant = "with_mail" -> LimitReached(user_type, count)

\* faulty variant: only the username is UNIQUE
UniqueUsernameOnly(username, email) ==
    \E u \in users : u.username = username

\* UNIQUE(username), and UNIQUE(email) where the table has the column
UniqueViolation(username, email) ==
    \E u \in users :
        \/ u.username = username
        \/ variant # "final" /\ u.email = email

\* faulty variant: the username and the password may match different rows
AuthenticateAnyRow(username, password) ==
    {u \in users : u.username = username /\ \E v \in users : v.password = password}

\* SELECT ... FROM users WHERE username = ? AND password = ?
Authenticate(username, password) ==
    {u \in users : u.username = username /\ u.password = password}

----------------------------------------------------------------------------
(* Messages of the handlers *)

NoMsg == "(none)"

SignupOkMsg ==
    IF variant = "with_mail" THEN "Signup successful! Please login."
    ELSE "Account created successfully. Please log in."

SignupFailMsg ==
    CASE variant = "final" -> "Username already exists."
      [] variant = "database" -> "Username or Email already exists."
      [] variant = "with_mail" -> "Signup failed"

LoginOkMsg == IF variant = "with_mail" THEN "Welcome back" ELSE "Welcome"

LoginFailMsg ==
    IF variant = "with_mail" THEN "Invalid credentials"
    ELSE "Invalid credentials. Please try again."

LimitMsg ==
    IF variant = "with_mail" THEN "Task limit reached. Upgrade to add more tasks."
    ELSE "Task limit reached. Upgrade to Premium to add unlimited tasks."

----------------------------------------------------------------------------
(* Initial state: empty tables, every session without logged_in *)

LoggedOut == [logged_in |-> FALSE, user_id |-> 0, user_type |-> None,
              user_email |-> None]

NoProbe == [stage |-> 0, id |-> 0, before |-> {}]

\* no send_email call in the run
NoMail == [to |-> None, subject |-> None, delivered |-> FALSE]

\* send_email(to_email, subject, body) as the sink sees it.  Every exception
\* of the SMTP exchange is caught inside, so the caller goes on whichever way
\* delivery went; final.py sends nothing.
send_email(to_email, subject, delivered) ==
    IF variant = "final" THEN NoMail
    ELSE [to |-> to_email, subject |-> subject, delivered |-> delivered]

\* The outcomes of the SMTP exchange of one send_email call: delivered or not
\* (final.py makes no call, so there is nothing to fail)
Deliveries == IF variant = "final" THEN {TRUE} ELSE BOOLEAN

\* SELECT email FROM users WHERE id = user_id
EmailOf(user_id) ==
    IF \E u \in users : u.id = user_id
      THEN (CHOOSE u \in users : u.id = user_id).email
      ELSE None

\* faulty variant: a failed delivery takes the row change back
RolledBack(before, after, delivered) == IF delivered THEN after ELSE before

\* The table a handler leaves: conn.commit() has run before send_email is
\* called, so it is the changed table whichever way delivery went
Committed(before, after, delivered) == after

\* the session has no script run in progress
Idle(s) == pending[s] = {} /\ deleting[s] = {}

InitIn(variants) ==
    /\ variant \in variants
    /\ users = {}
    /\ tasks = {}
    /\ nextUserId = 1
    /\ nextTaskId = 1
    /\ session = [s \in Sessions |-> LoggedOut]
    /\ pending = [s \in Sessions |-> {}]
    /\ msg = NoMsg
    /\ probe = NoProbe
    /\ signedUp = {}
    /\ mail = NoMail
    /\ deleting = [s \in Sessions |-> {}]

----------------------------------------------------------------------------
(* UI event handlers *)

\* faulty variant: every account is stored as Regular
UserRowRegular(id, username, email, password, user_type) ==
    [id |-> id, username |-> username,
     email |-> IF variant = "final" THEN NoEmail ELSE email,
     password |-> password, user_type |-> "Regular"]

\* INSERT INTO users: the row the statement stores
UserRow(id, username, email, password, user_type) ==
    [id |-> id, username |-> username,
     email |-> IF variant = "final" THEN NoEmail ELSE email,
     password |-> password, user_type |-> user_type]

\* signup_page: the Sign Up button.  A refused INSERT may still advance a
\* PostgreSQL SERIAL; ids stay unique and increasing either way, which is all
\* that is read of them.
Signup(s, username, email, password, user_type) ==
    /\ ~session[s].logged_in
    /\ Idle(s)
    /\ IF UniqueViolation(username, email)
         THEN /\ msg' = SignupFailMsg
              /\ UNCHANGED <<users, nextUserId, signedUp>>
              /\ mail' = NoMail
         ELSE \E delivered \in Deliveries :
              /\ users' = Committed(users,
                     users \cup {UserRow(nextUserId, username, email, password, user_type)},
                     delivered)
              /\ nextUserId' = nextUserId + 1
              /\ msg' = SignupOkMsg
              /\ signedUp' = signedUp \cup
                    {[username |-> username, email |-> email,
                      password |-> password, user_type |-> user_type]}
              /\ mail' = send_email(email, "Welcome to Task Manager", delivered)
    /\ UNCHANGED <<variant, tasks, nextTaskId, session, pending, probe, deleting>>

\* faulty variant: a successful login does not store the tier
LoginKeepsType(s, username, password) ==
    /\ ~session[s].logged_in
    /\ Idle(s)
    /\ LET found == Authenticate(username, password) IN
        IF found # {}
          THEN LET user == CHOOSE u \in found : \A v \in found : u.id <= v.id IN
               /\ session' = [session EXCEPT ![s] =
                      [logged_in |-> TRUE, user_id |-> user.id,
                       user_type |-> @.user_type,
                       user_email |-> IF variant = "with_mail" THEN user.email
                                      ELSE @.user_email]]
               /\ msg' = LoginOkMsg
          ELSE /\ msg' = LoginFailMsg
               /\ UNCHANGED session
    /\ UNCHANGED <<variant, users, tasks, nextUserId, nextTaskId, pending, probe, signedUp, deleting>>
    /\ mail' = NoMail

\* login_page: the Login button
Login(s, username, password) ==
    /\ ~session[s].logged_in
    /\ Idle(s)
    /\ LET found == Authenticate(username, password) IN
        IF found # {}
          THEN LET user == CHOOSE u \in found : \A v \in found : u.id <= v.id IN
               /\ session' = [session EXCEPT ![s] =
                      [logged_in |-> TRUE, user_id |-> user.id,
                       user_type |-> user.user_type,
                       user_email |-> IF variant = "with_mail" THEN user.email
                                      ELSE @.user_email]]
               /\ msg' = LoginOkMsg
          ELSE /\ msg' = LoginFailMsg
               /\ UNCHANGED session
    /\ UNCHANGED <<variant, users, tasks, nextUserId, nextTaskId, pending, probe, signedUp, deleting>>
    /\ mail' = NoMail

\* logout (final.py, database.py) and the Logout button of with_mail.py, which
\* clears logged_in alone
Logout(s) ==
    /\ session[s].logged_in
    /\ Idle(s)
    /\ session' = [session EXCEPT ![s] =
           IF variant = "with_mail" THEN [@ EXCEPT !.logged_in = FALSE]
           ELSE [@ EXCEPT !.logged_in = FALSE, !.user_id = 0, !.user_type = None]]
    /\ msg' = IF variant = "with_mail" THEN NoMsg ELSE "Logged out successfully!"
    /\ UNCHANGED <<variant, users, tasks, nextUserId, nextTaskId, pending, probe, signedUp, deleting>>
    /\ mail' = NoMail

\* The title test of final.py's form: `if title.strip()`
TitleRefused(title) == variant = "final" /\ Strip(title) = <<>>

\* task_dashboard, Add Task tab, as one script run
AddTask(s, title, description, due_date, category, priority) ==
    /\ session[s].logged_in
    /\ Idle(s)
    /\ LET user_id == session[s].user_id
           user_type == session[s].user_type
       IN  IF QuotaBlocks(user_type, get_task_count(user_id))
             THEN /\ msg' = LimitMsg
                  /\ mail' = NoMail
                  /\ UNCHANGED <<tasks, nextTaskId>>
             ELSE IF TitleRefused(title)
             THEN /\ msg' = "Title cannot be empty!"
                  /\ mail' = NoMail
                  /\ UNCHANGED <<tasks, nextTaskId>>
             ELSE \E delivered \in Deliveries :
                  /\ tasks' = Committed(tasks,
                         add_task(tasks, nextTaskId, user_id, title, description,
                                  due_date, category, priority),
                         delivered)
                  /\ nextTaskId' = nextTaskId + 1
                  /\ msg' = "Task added successfully!"
                  /\ mail' = send_email(
                         IF variant = "with_mail" THEN session[s].user_email
                         ELSE EmailOf(user_id),
                         "New Task Added", delivered)
    /\ UNCHANGED <<variant, users, nextUserId, session, pending, probe, signedUp, deleting>>

\* faulty variant: the listing is not restricted to the session user
ListedEveryUser(s) == tasks

\* The rows of the listing a run shows: the session user's tasks
Listed(s) == TasksOf(session[s].user_id)

\* final.py: the status button, update_task_status(task_id, 0 if completed else 1)
ToggleStatus(s, task_id) ==
    /\ variant = "final"
    /\ session[s].logged_in
    /\ Idle(s)
    /\ \E t \in Listed(s) :
        /\ t.id = task_id
        /\ tasks' = update_task_status(tasks, task_id, ~t.completed)
    /\ msg' = NoMsg
    /\ UNCHANGED <<variant, users, nextUserId, nextTaskId, session, pending, probe, signedUp, deleting>>
    /\ mail' = NoMail

\* database.py: Mark as Completed calls update_task_status(task_id, completed=True);
\* the function has no parameter named completed, so the call raises TypeError
\* before any statement runs
MarkCompleted(s, task_id) ==
    /\ variant = "database"
    /\ session[s].logged_in
    /\ Idle(s)
    /\ \E t \in Listed(s) : t.id = task_id /\ ~t.completed
    /\ msg' = "TypeError"
    /\ UNCHANGED <<variant, users, tasks, nextUserId, nextTaskId, session, pending, probe, signedUp, deleting>>
    /\ mail' = NoMail

\* final.py, database.py: Save Changes of the edit form, taken as a handler
\* that can run (the form sits inside `if st.button("Edit")`)
Edit(s, task_id, title, description, due_date, category, priority) ==
    /\ variant \in {"final", "database"}
    /\ session[s].logged_in
    /\ Idle(s)
    /\ \E t \in Listed(s) : t.id = task_id
    /\ tasks' = update_task(tasks, task_id, title, description, due_date, category, priority)
    /\ msg' = "Task updated successfully!"
    /\ UNCHANGED <<variant, users, nextUserId, nextTaskId, session, pending, probe, signedUp, deleting>>
    /\ mail' = NoMail

\* faulty variant: the tier of the session is not looked at
DeleteUnrestricted(s, task_id) ==
    /\ variant \in {"final", "database"}
    /\ session[s].logged_in
    /\ Idle(s)
    /\ \E t \in Listed(s) : t.id = task_id
    /\ \E delivered \in Deliveries :
        /\ tasks' = Committed(tasks, delete_task(tasks, task_id), delivered)
        /\ msg' = "Task deleted successfully!"
        /\ mail' = send_email(EmailOf(session[s].user_id), "Task Deleted", delivered)
    /\ UNCHANGED <<variant, users, nextUserId, nextTaskId, session, pending, probe, signedUp, deleting>>

\* final.py: the delete button exists unless user_type is Restricted;
\* database.py: the button of a Restricted user only warns
Delete(s, task_id) ==
    /\ variant \in {"final", "database"}
    /\ session[s].logged_in
    /\ Idle(s)
    /\ \E t \in Listed(s) : t.id = task_id
    /\ IF session[s].user_type = "Restricted"
         THEN /\ variant = "database"
              /\ msg' = "Upgrade your plan to delete tasks."
              /\ mail' = NoMail
              /\ UNCHANGED tasks
         ELSE \E delivered \in Deliveries :
              /\ tasks' = Committed(tasks, delete_task(tasks, task_id), delivered)
              /\ msg' = "Task deleted successfully!"
              /\ mail' = send_email(EmailOf(session[s].user_id), "Task Deleted", delivered)
    /\ UNCHANGED <<variant, users, nextUserId, nextTaskId, session, pending, probe, signedUp, deleting>>

\* Delete with the listing and the call as separate steps: the run has drawn
\* the listing, the button of task_id was pressed, delete_task is about to run
DeleteBegin(s, task_id) ==
    /\ variant \in {"final", "database"}
    /\ session[s].logged_in
    /\ Idle(s)
    /\ session[s].user_type # "Restricted"
    /\ \E t \in Listed(s) : t.id = task_id
    /\ deleting' = [deleting EXCEPT ![s] = {task_id}]
    /\ UNCHANGED <<variant, users, tasks, nextUserId, nextTaskId, session, pending, msg,
                   probe, signedUp, mail>>

\* the delete_task call of such a run.  final.py: the DELETE statement alone.
\* database.py: the row is read first and `user_id, title = c.fetchone()`
\* raises TypeError when it is gone, before the DELETE statement.
DeleteExec(s) ==
    /\ \E task_id \in deleting[s] :
        IF variant = "database" /\ ~\E t \in tasks : t.id = task_id
          THEN /\ msg' = "TypeError"
               /\ mail' = NoMail
               /\ UNCHANGED tasks
          ELSE \E delivered \in Deliveries :
               /\ tasks' = Committed(tasks, delete_task(tasks, task_id), delivered)
               /\ msg' = "Task deleted successfully!"
               /\ mail' = send_email(EmailOf(session[s].user_id), "Task Deleted", delivered)
    /\ deleting' = [deleting EXCEPT ![s] = {}]
    /\ UNCHANGED <<variant, users, nextUserId, nextTaskId, session, pending, probe, signedUp>>

\* database.py: Send Password and Change Password run statements written with
\* `?` placeholders; psycopg2 formats with %s, so execute raises TypeError
\* ("not all arguments converted") and no row is read or written
ForgotPassword(s, email) ==
    /\ variant = "database"
    /\ ~session[s].logged_in
    /\ Idle(s)
    /\ msg' = "TypeError"
    /\ UNCHANGED <<variant, users, tasks, nextUserId, nextTaskId, session, pending, probe, signedUp, deleting>>
    /\ mail' = NoMail

ChangePassword(s, old_password, new_password, confirm_password) ==
    /\ variant = "database"
    /\ session[s].logged_in
    /\ Idle(s)
    /\ msg' = "TypeError"
    /\ UNCHANGED <<variant, users, tasks, nextUserId, nextTaskId, session, pending, probe, signedUp, deleting>>
    /\ mail' = NoMail

----------------------------------------------------------------------------
(* View Tasks tab *)

\* filter_option.lower()
Lower(filter_option) ==
    CASE filter_option = "Completed" -> "completed"
      [] filter_option = "Uncompleted" -> "uncompleted"
      [] filter_option = "All" -> "all"

FilterOptions == {"All", "Completed", "Uncompleted"}

\* the options of the category selectbox: ["All"] + get_categories(user_id)
CategoryOptions(user_id) == {"All"} \cup get_categories(user_id)

\* The listing of the View Tasks tab for the two selectbox values.
\*   final.py, database.py: get_tasks(user_id, filter_by, category)
\*   with_mail.py: the query built in task_dashboard
ViewTasks(user_id, category_filter, filter_option) ==
    IF variant = "with_mail"
      THEN {t \in TasksOf(user_id) :
              /\ (category_filter # "All" => t.category = category_filter)
              /\ (filter_option # "All" =>
                    t.completed = (IF filter_option = "Completed" THEN TRUE ELSE FALSE))}
      ELSE LET category == IF category_filter = "All" THEN None ELSE category_filter
               filter_by == IF filter_option = "All" THEN None ELSE Lower(filter_option)
           IN  get_tasks(user_id, filter_by, category)

----------------------------------------------------------------------------
(* Add Task with the count query and the INSERT as separate steps *)

\* the run reads the count, passes the checks and is about to insert
AddTaskCheck(s, title, description, due_date, category, priority) ==
    /\ session[s].logged_in
    /\ Idle(s)
    /\ ~QuotaBlocks(session[s].user_type, get_task_count(session[s].user_id))
    /\ ~TitleRefused(title)
    /\ pending' = [pending EXCEPT ![s] =
           {[user_id |-> session[s].user_id, title |-> title,
             description |-> description, due_date |-> due_date,
             category |-> category, priority |-> priority]}]
    /\ UNCHANGED <<variant, users, tasks, nextUserId, nextTaskId, session, msg, probe,
                   signedUp, mail, deleting>>

\* the run is refused by the quota check or by the title test
AddTaskRefused(s, title) ==
    /\ session[s].logged_in
    /\ Idle(s)
    /\ \/ /\ QuotaBlocks(session[s].user_type, get_task_count(session[s].user_id))
          /\ msg' = LimitMsg
       \/ /\ ~QuotaBlocks(session[s].user_type, get_task_count(session[s].user_id))
          /\ TitleRefused(title)
          /\ msg' = "Title cannot be empty!"
    /\ UNCHANGED <<variant, users, tasks, nextUserId, nextTaskId, session, pending, probe, signedUp, deleting>>
    /\ mail' = NoMail

\* the INSERT of a run that passed the checks
AddTaskInsert(s) ==
    /\ \E r \in pending[s], delivered \in Deliveries :
        /\ tasks' = Committed(tasks,
               add_task(tasks, nextTaskId, r.user_id, r.title, r.description,
                        r.due_date, r.category, r.priority),
               delivered)
        /\ mail' = send_email(
               IF variant = "with_mail" THEN session[s].user_email
               ELSE EmailOf(r.user_id),
               "New Task Added", delivered)
    /\ nextTaskId' = nextTaskId + 1
    /\ pending' = [pending EXCEPT ![s] = {}]
    /\ msg' = "Task added successfully!"
    /\ UNCHANGED <<variant, users, nextUserId, session, probe, signedUp, deleting>>

----------------------------------------------------------------------------
(* Direct calls of the data layer: update_task_status(id, True) followed by
   update_task_status(id, False) *)

StatusTrue(task_id) ==
    /\ probe.stage = 0
    /\ \E t \in tasks, delivered \in Deliveries :
        /\ t.id = task_id
        /\ tasks' = Committed(tasks, update_task_status(tasks, task_id, TRUE), delivered)
        /\ mail' = send_email(EmailOf(t.user_id), "Task Status Updated", delivered)
    /\ probe' = [stage |-> 1, id |-> task_id, before |-> tasks]
    /\ UNCHANGED <<variant, users, nextUserId, nextTaskId, session, pending, msg, signedUp, deleting>>

StatusFalse ==
    /\ probe.stage = 1
    /\ \E t \in tasks, delivered \in Deliveries :
        /\ t.id = probe.id
        /\ tasks' = Committed(tasks, update_task_status(tasks, probe.id, FALSE), delivered)
        /\ mail' = send_email(EmailOf(t.user_id), "Task Status Updated", delivered)
    /\ probe' = [probe EXCEPT !.stage = 2]
    /\ UNCHANGED <<variant, users, nextUserId, nextTaskId, session, pending, msg, signedUp, deleting>>

StatusDone ==
    /\ probe.stage = 2
    /\ probe' = NoProbe
    /\ mail' = NoMail
    /\ UNCHANGED <<variant, users, tasks, nextUserId, nextTaskId, session, pending, msg,
                   signedUp, deleting>>

\* update_task called directly on any id, stored or not
UpdateTaskCall(task_id, title, description, due_date, category, priority) ==
    /\ probe.stage = 0
    /\ tasks' = update_task(tasks, task_id, title, description, due_date, category, priority)
    /\ probe' = [stage |-> 3, id |-> task_id, before |-> {}]
    /\ mail' = NoMail
    /\ UNCHANGED <<variant, users, nextUserId, nextTaskId, session, pending, msg, signedUp,
                   deleting>>

UpdateTaskDone ==
    /\ probe.stage = 3
    /\ probe' = NoProbe
    /\ UNCHANGED <<variant, users, tasks, nextUserId, nextTaskId, session, pending, msg,
                   signedUp, mail, deleting>>

----------------------------------------------------------------------------
(* Inputs the specifications draw from *)

Usernames == {"alice", "bob"}
Emails == {"a@x", "b@x"}
Passwords == {"pw", "pw2"}
PairedAccounts == {<<"alice", "a@x">>, <<"bob", "b@x">>}
OneAccount == {<<"alice", "a@x">>}
Titles == {<<"t">>, <<" ">>}
Categories == {"", "All", "work"}
Today == "2025-01-01"
Tomorrow == "2025-01-02"

----------------------------------------------------------------------------
(* Sequential specifications of the quota: one account, tasks up to MaxTasks *)

NextQuotaCommon ==
    \E s \in Sessions :
        \/ \E a \in OneAccount, t \in UserTypes : Signup(s, a[1], a[2], "pw", t)
        \/ \E p \in Passwords : Login(s, "alice", p)
        \/ Logout(s)
        \/ /\ nextTaskId <= MaxTasks
           /\ AddTask(s, <<"t">>, "", Today, "work", "Low")

NextQuota ==
    \/ NextQuotaCommon
    \/ \E s \in Sessions, id \in 1..MaxTasks : Delete(s, id)

SpecFinal == InitIn({"final"}) /\ [][NextQuota]_vars

SpecDatabase == InitIn({"database"}) /\ [][NextQuota]_vars

SpecWithMail == InitIn({"with_mail"}) /\ [][NextQuotaCommon]_vars

----------------------------------------------------------------------------
(* The specification of the quota race: the count query and the INSERT of
   Add Task are separate steps of a run, and runs of different sessions
   interleave *)

InFlight == Cardinality({s \in Sessions : pending[s] # {}})

NextRace ==
    \E s \in Sessions :
        \/ \E a \in OneAccount, t \in UserTypes : Signup(s, a[1], a[2], "pw", t)
        \/ \E p \in Passwords : Login(s, "alice", p)
        \/ Logout(s)
        \/ /\ nextTaskId + InFlight <= MaxTasksRace
           /\ AddTaskCheck(s, <<"t">>, "", Today, "work", "Low")
        \/ \E title \in Titles : AddTaskRefused(s, title)
        \/ AddTaskInsert(s)

SpecRace == InitIn({"final", "with_mail"}) /\ [][NextRace]_vars

----------------------------------------------------------------------------
(* Claims about the quota *)

CountOf(table, user_id) == Cardinality({t \in table : t.user_id = user_id})

\* the session's user is at or above n tasks and of one of the tiers
AtOrAbove(s, tiers, n) ==
    /\ session[s].logged_in
    /\ session[s].user_type \in tiers
    /\ CountOf(tasks, session[s].user_id) >= n

\* C1: in with_mail.py, with one run at a time, no Regular user ever has more
\* than 10 tasks and no Restricted user more than 5, and an Add Task run of a
\* user at or above the limit inserts nothing and reports the limit.
C1_MailQuota ==
    [][/\ \A u \in users' :
            /\ u.user_type = "Regular" => CountOf(tasks', u.id) <= 10
            /\ u.user_type = "Restricted" => CountOf(tasks', u.id) <= 5
       /\ \A s \in Sessions :
            /\ AddTask(s, <<"t">>, "", Today, "work", "Low")
            /\ AtOrAbove(s, {"Regular"}, 10) \/ AtOrAbove(s, {"Restricted"}, 5)
            => tasks' = tasks /\ msg' = LimitMsg]_vars

C1_Witness ==
    /\ variant = "with_mail"
    /\ msg = LimitMsg
    /\ \E u \in users : u.user_type = "Restricted" /\ CountOf(tasks, u.id) = 5

\* C2: in final.py, with one run at a time, no Regular user ever has more than
\* 10 tasks, and an Add Task run of a Regular user with 10 or more tasks leaves
\* the task table unchanged and reports the limit.
C2_FinalRegularQuota ==
    [][/\ \A u \in users' : u.user_type = "Regular" => CountOf(tasks', u.id) <= 10
       /\ \A s \in Sessions :
            /\ AddTask(s, <<"t">>, "", Today, "work", "Low")
            /\ AtOrAbove(s, {"Regular"}, 10)
            => tasks' = tasks /\ msg' = LimitMsg]_vars

C2_Witness ==
    /\ variant = "final"
    /\ msg = LimitMsg
    /\ \E u \in users : u.user_type = "Regular" /\ CountOf(tasks, u.id) = 10

\* C3: in final.py no Restricted user ever has more than 10 tasks.
C3_FinalRestrictedQuota ==
    \A u \in users : u.user_type = "Restricted" => CountOf(tasks, u.id) <= 10

\* C4: in database.py no Regular or Restricted user ever has more than 10 tasks.
C4_DatabaseQuota ==
    \A u \in users :
        u.user_type \in {"Regular", "Restricted"} => CountOf(tasks, u.id) <= 10

\* C5: with the count query and the INSERT interleaved, the count of a limited
\* user exceeds the limit by at most the number of other sessions (each run
\* inserts once after a check it passed below the limit); the witness is the
\* state in which two runs passed the check at limit - 1 and both inserted.
RaceLimit(u) ==
    CASE variant = "final" /\ u.user_type = "Regular" -> 10
      [] variant = "with_mail" /\ u.user_type = "Regular" -> 10
      [] variant = "with_mail" /\ u.user_type = "Restricted" -> 5
      [] OTHER -> MaxTasksRace

C5_RaceBound ==
    \A u \in users :
        CountOf(tasks, u.id) <= RaceLimit(u) + Cardinality(Sessions) - 1

C5_Witness ==
    /\ variant = "final"
    /\ \E u \in users : u.user_type = "Regular" /\ CountOf(tasks, u.id) = 11
    /\ \A s \in Sessions : session[s].logged_in /\ pending[s] = {}

----------------------------------------------------------------------------
(* The specification of the accounts: two usernames, two emails, every tier,
   logins with the right and with a wrong password, and a few tasks *)

SignupEmails == IF variant = "final" THEN {NoEmail} ELSE Emails

NextUsers ==
    \E s \in Sessions :
        \/ \E u \in Usernames, e \in SignupEmails, t \in UserTypes :
              Signup(s, u, e, "pw", t)
        \/ \E u \in Usernames, p \in Passwords : Login(s, u, p)
        \/ Logout(s)
        \/ /\ nextTaskId <= MaxTasksUsers
           /\ AddTask(s, <<"t">>, "", Today, "work", "Low")
        \/ \E id \in 1..MaxTasksUsers : Delete(s, id)
        \/ \E e \in Emails : ForgotPassword(s, e)
        \/ ChangePassword(s, "pw", "pw2", "pw2")

SpecUsers == InitIn({"final", "database", "with_mail"}) /\ [][NextUsers]_vars

\* a username, or in database.py and with_mail.py an email, that a row holds
Taken(username, email) ==
    \E r \in users :
        \/ r.username = username
        \/ variant \in {"database", "with_mail"} /\ r.email = email

\* C6: a signup with a username (or, in database.py and with_mail.py, an email)
\* that exists fails and leaves the users table as it was; no step changes or
\* removes a row; and no two rows share an id, a username or (in the variants
\* with the column) an email.
C6_SignupUnique ==
    [][/\ \A u \in Usernames, e \in SignupEmails :
            Taken(u, e) =>
                \A s \in Sessions, t \in UserTypes :
                    Signup(s, u, e, "pw", t) => users' = users /\ msg' = SignupFailMsg
       /\ users \subseteq users'
       /\ \A a, b \in users' :
            a # b => /\ a.id # b.id
                     /\ a.username # b.username
                     /\ variant \in {"database", "with_mail"} => a.email # b.email]_vars

C6_Witness ==
    /\ msg = SignupFailMsg
    /\ variant = "database"
    /\ Cardinality(users) = 2

\* C7: a login with the username and password of a successful signup succeeds
\* and sets the session's user_type to the tier given at that signup, whatever
\* happened since.
C7_SignupThenLogin ==
    [][\A s \in Sessions, r \in signedUp :
          Login(s, r.username, r.password)
          => /\ session'[s].logged_in
             /\ session'[s].user_type = r.user_type
             /\ msg' = LoginOkMsg]_vars

C7_Witness ==
    /\ msg = LoginOkMsg
    /\ Cardinality(signedUp) = 2
    /\ tasks # {}
    /\ \E s \in Sessions, r \in signedUp :
          /\ session[s].logged_in
          /\ r.user_type = "Premium"
          /\ session[s].user_type = "Premium"
          /\ \E u \in users : u.id = session[s].user_id /\ u.username = r.username

----------------------------------------------------------------------------
(* The specification of the task listing: one browser session, two accounts,
   categories that include the empty string and "All", every handler of the
   dashboard *)

NextTasks ==
    \E s \in {"s1"} :
        \/ \E a \in PairedAccounts, t \in UserTypes : Signup(s, a[1], a[2], "pw", t)
        \/ \E u \in Usernames : Login(s, u, "pw")
        \/ Logout(s)
        \/ /\ nextTaskId <= MaxTasksData
           /\ \E c \in Categories : AddTask(s, <<"t">>, "", Today, c, "Low")
        \/ \E id \in 1..MaxTasksData : ToggleStatus(s, id)
        \/ \E id \in 1..MaxTasksData : MarkCompleted(s, id)
        \/ \E id \in 1..MaxTasksData, c \in Categories :
              Edit(s, id, <<"t">>, "", Today, c, "Low")
        \/ \E id \in 1..MaxTasksData : Delete(s, id)

SpecTasks == InitIn({"final", "database", "with_mail"}) /\ [][NextTasks]_vars

\* C8: for every user and every choice of the category selectbox, the listings
\* under Completed and under Uncompleted are disjoint and together are the
\* listing under All; without a category filter their sizes add up to
\* get_task_count(user).
C8_StatusPartition ==
    \A u \in users :
        /\ \A c \in {"All"} \cup Categories :
            /\ ViewTasks(u.id, c, "Completed") \cap ViewTasks(u.id, c, "Uncompleted") = {}
            /\ ViewTasks(u.id, c, "Completed") \cup ViewTasks(u.id, c, "Uncompleted")
                 = ViewTasks(u.id, c, "All")
        /\ Cardinality(ViewTasks(u.id, "All", "Completed"))
             + Cardinality(ViewTasks(u.id, "All", "Uncompleted")) = get_task_count(u.id)

C8_Witness ==
    \E u \in users :
        /\ ViewTasks(u.id, "All", "Completed") # {}
        /\ ViewTasks(u.id, "All", "Uncompleted") # {}

\* whether a task's completed flag matches a choice of the status selectbox
StatusMatches(t, filter_option) ==
    CASE filter_option = "Completed" -> t.completed
      [] filter_option = "Uncompleted" -> ~t.completed
      [] OTHER -> TRUE

\* C9: for every user, every category the user's tasks hold (each is offered
\* by the category selectbox) and every status choice, the listing is exactly
\* the user's tasks of that category whose completed flag matches the status.
C9_Conjunctive ==
    \A u \in users : \A c \in get_categories(u.id), fo \in FilterOptions :
        ViewTasks(u.id, c, fo)
          = {t \in tasks : t.user_id = u.id /\ t.category = c /\ StatusMatches(t, fo)}

----------------------------------------------------------------------------
(* The specification of the status calls: the dashboard of one account, and
   update_task_status(id, True) followed by update_task_status(id, False)
   called on a task of the table *)

NextStatus ==
    \/ /\ probe.stage = 0
       /\ \E s \in {"s1"} :
            \/ \E t \in {"Premium", "Regular"} : Signup(s, "alice", "a@x", "pw", t)
            \/ Login(s, "alice", "pw")
            \/ /\ nextTaskId <= MaxTasksData
               /\ \E c \in {"", "work"} : AddTask(s, <<"t">>, "", Today, c, "Low")
            \/ \E id \in 1..MaxTasksData : ToggleStatus(s, id)
    \/ \E id \in 1..MaxTasksData : StatusTrue(id)
    \/ StatusFalse
    \/ StatusDone

SpecStatus == InitIn({"final", "database"}) /\ [][NextStatus]_vars

\* C10 as stated: after update_task_status(id, True) and then
\* update_task_status(id, False) the table is what it was before the two calls.
C10_RoundTripRestores ==
    probe.stage = 2 => tasks = probe.before

\* C10 as amended: after the two calls the task has completed = False, which is
\* its value before the calls exactly when it was uncompleted, and every other
\* field of it and every other task is as before.
C10_RoundTripClears ==
    probe.stage = 2 =>
        /\ Cardinality(tasks) = Cardinality(probe.before)
        /\ \A b \in probe.before :
              \E t \in tasks :
                /\ t.id = b.id
                /\ t.user_id = b.user_id
                /\ t.title = b.title
                /\ t.description = b.description
                /\ t.due_date = b.due_date
                /\ t.category = b.category
                /\ t.priority = b.priority
                /\ t.completed = (IF b.id = probe.id THEN FALSE ELSE b.completed)
        /\ (\A b \in probe.before : b.id = probe.id => ~b.completed) => tasks = probe.before

C10_Witness ==
    /\ probe.stage = 2
    /\ \E b \in probe.before : b.id = probe.id /\ b.completed
    /\ \E b \in probe.before : b.id # probe.id /\ b.completed

----------------------------------------------------------------------------
(* The specification of deletion: the listing and the delete_task call are
   separate steps of a run, so two sessions can both be about to delete the
   same task *)

NextDelete ==
    \E s \in Sessions :
        \/ \E a \in OneAccount, t \in UserTypes : Signup(s, a[1], a[2], "pw", t)
        \/ Login(s, "alice", "pw")
        \/ Logout(s)
        \/ /\ nextTaskId <= MaxTasksDelete
           /\ AddTask(s, <<"t">>, "", Today, "work", "Low")
        \/ \E id \in 1..MaxTasksDelete : DeleteBegin(s, id)
        \/ DeleteExec(s)

SpecDelete == InitIn({"final", "database"}) /\ [][NextDelete]_vars

\* C11: a delete_task call removes the row with the given id and no other row,
\* one row when the task exists and none when another session has already
\* deleted it; and an id that has been given out and is no longer in the table
\* never comes back, whatever tasks are added later (ids are not reused).
C11_DeleteExactlyOne ==
    [][/\ \A s \in Sessions :
            DeleteExec(s) =>
                \E id \in deleting[s] :
                    /\ tasks' = {t \in tasks : t.id # id}
                    /\ Cardinality(tasks \ tasks') =
                           IF \E t \in tasks : t.id = id THEN 1 ELSE 0
       /\ \A id \in 1..(nextTaskId - 1) :
            (~\E t \in tasks : t.id = id) => (~\E t \in tasks' : t.id = id)
       /\ \A t \in tasks' : t.id < nextTaskId']_vars

\* one session has deleted the task, a later task exists, and the other
\* session is still about to delete the same id
C11_Witness ==
    \E id \in 1..MaxTasksDelete :
        /\ deleting["s1"] = {}
        /\ deleting["s2"] = {id}
        /\ ~\E t \in tasks : t.id = id
        /\ \E t \in tasks : t.id > id
        /\ \E t \in tasks : t.id < id

----------------------------------------------------------------------------
(* Claims about the tiers *)

\* C12: no step of final.py or database.py removes a task owned by a
\* Restricted user, and pressing Delete in a session logged in as a Restricted
\* user leaves the task table unchanged.
C12_RestrictedKeepsTasks ==
    [][/\ \A u \in users :
            u.user_type = "Restricted" =>
                \A t \in tasks :
                    t.user_id = u.id =>
                        \E k \in tasks' : k.id = t.id /\ k.user_id = u.id
       /\ \A s \in Sessions, id \in 1..MaxTasksUsers :
            Delete(s, id) /\ session[s].user_type = "Restricted" => tasks' = tasks]_vars

C12_Witness ==
    /\ variant = "database"
    /\ msg = "Upgrade your plan to delete tasks."
    /\ \E u \in users :
          /\ u.user_type = "Restricted"
          /\ CountOf(tasks, u.id) = MaxTasksUsers
          /\ \E s \in Sessions : session[s].logged_in /\ session[s].user_id = u.id

----------------------------------------------------------------------------
(* The specification of the notifications: the handlers of database.py and
   with_mail.py that call send_email, each delivery succeeding or failing, and
   update_task_status of database.py called on a task of the table *)

NextMail ==
    \/ /\ probe.stage = 0
       /\ \E s \in {"s1"} :
            \/ \E a \in PairedAccounts, t \in UserTypes : Signup(s, a[1], a[2], "pw", t)
            \/ \E u \in Usernames : Login(s, u, "pw")
            \/ Logout(s)
            \/ /\ nextTaskId <= MaxTasksData
               /\ AddTask(s, <<"t">>, "", Today, "work", "Low")
            \/ \E id \in 1..MaxTasksData : MarkCompleted(s, id)
            \/ \E id \in 1..MaxTasksData : Delete(s, id)
    \/ /\ variant = "database"
       /\ \E id \in 1..MaxTasksData : StatusTrue(id)
    \/ StatusFalse
    \/ StatusDone

SpecMail == InitIn({"database", "with_mail"}) /\ [][NextMail]_vars

\* the users whose stored email is the address of the last send_email call
Recipients(table) == {u \in table : u.email = mail'.to}

\* C13: in every step that calls send_email the row change is in the store
\* whether or not the message was delivered, and the handler goes on to its
\* end: after the welcome mail the new account is stored, after 'New Task
\* Added' the new task of the recipient is stored, after 'Task Deleted' the
\* recipient's task is gone, after 'Task Status Updated' the flag is written;
\* nothing else in the two tables differs.
C13_MailAfterCommit ==
    [][mail' # NoMail =>
        CASE mail'.subject = "Welcome to Task Manager" ->
               /\ tasks' = tasks
               /\ users \subseteq users'
               /\ \E u \in Recipients(users') : users' \ users = {u} /\ u.id = nextUserId
               /\ msg' = SignupOkMsg
          [] mail'.subject = "New Task Added" ->
               /\ users' = users
               /\ tasks \subseteq tasks'
               /\ \E t \in tasks' :
                     /\ tasks' \ tasks = {t}
                     /\ t.id = nextTaskId
                     /\ \E u \in Recipients(users) : t.user_id = u.id
               /\ msg' = "Task added successfully!"
          [] mail'.subject = "Task Deleted" ->
               /\ users' = users
               /\ tasks' \subseteq tasks
               /\ \E t \in tasks :
                     /\ tasks \ tasks' = {t}
                     /\ \E u \in Recipients(users) : t.user_id = u.id
               /\ msg' = "Task deleted successfully!"
          [] mail'.subject = "Task Status Updated" ->
               /\ users' = users
               /\ tasks' = update_task_status(tasks, probe'.id, probe'.stage = 1)
               /\ \E t \in tasks' :
                     /\ t.id = probe'.id
                     /\ t.completed = (probe'.stage = 1)
                     /\ \E u \in Recipients(users) : t.user_id = u.id
          [] OTHER -> FALSE]_vars

\* a delete whose notification was not delivered, with the row gone
C13_Witness ==
    /\ variant = "database"
    /\ mail.subject = "Task Deleted"
    /\ ~mail.delivered
    /\ msg = "Task deleted successfully!"
    /\ Cardinality(tasks) = MaxTasksData - 1

----------------------------------------------------------------------------
(* Claims about Add Task *)

\* final.py with one session: adding up to the limit, deleting, adding again
NextRecount ==
    \E s \in {"s1"} :
        \/ \E a \in OneAccount, t \in UserTypes : Signup(s, a[1], a[2], "pw", t)
        \/ Login(s, "alice", "pw")
        \/ Logout(s)
        \/ /\ nextTaskId <= MaxTasks
           /\ AddTask(s, <<"t">>, "", Today, "work", "Low")
        \/ \E id \in 1..MaxTasks : Delete(s, id)

SpecRecount == InitIn({"final"}) /\ [][NextRecount]_vars

\* C14: in final.py the quota of a Regular user is checked against the number
\* of rows the user has now: Add Task is refused at 10 rows or more and
\* otherwise, whatever was added and deleted before, stores one more row.
C14_QuotaOnCurrentCount ==
    [][\A s \in Sessions :
          /\ AddTask(s, <<"t">>, "", Today, "work", "Low")
          /\ session[s].user_type = "Regular"
          => IF CountOf(tasks, session[s].user_id) >= 10
               THEN tasks' = tasks /\ msg' = LimitMsg
               ELSE /\ CountOf(tasks', session[s].user_id) =
                          CountOf(tasks, session[s].user_id) + 1
                    /\ msg' = "Task added successfully!"]_vars

\* ten tasks again after eleven inserts and one delete
C14_Witness ==
    /\ variant = "final"
    /\ msg = "Task added successfully!"
    /\ nextTaskId = 12
    /\ \E u \in users : u.user_type = "Regular" /\ CountOf(tasks, u.id) = 10

\* The sequential quota specification over the three variants
SpecQuotaAll == InitIn({"final", "database", "with_mail"}) /\ [][NextQuotaCommon]_vars

\* C15: in final.py, database.py and with_mail.py an Add Task run of a Premium
\* user with a non-empty title is never refused on the count: at every count
\* it stores the task, as one new row of that user, and reports success.
C15_PremiumUnlimited ==
    [][\A s \in Sessions :
          /\ AddTask(s, <<"t">>, "", Today, "work", "Low")
          /\ session[s].user_type = "Premium"
          => /\ CountOf(tasks', session[s].user_id) =
                   CountOf(tasks, session[s].user_id) + 1
             /\ \E t \in tasks' :
                   /\ tasks' = tasks \cup {t}
                   /\ t.id = nextTaskId
                   /\ t.user_id = session[s].user_id
             /\ msg' = "Task added successfully!"]_vars

\* a Premium user past both limits
C15_Witness ==
    /\ variant = "with_mail"
    /\ msg = "Task added successfully!"
    /\ \E u \in users : u.user_type = "Premium" /\ CountOf(tasks, u.id) = MaxTasks

----------------------------------------------------------------------------
(* The specification of the titles: Add Task and Save Changes with titles that
   are text and titles that are blank *)

NextTitles ==
    \E s \in {"s1"} :
        \/ \E a \in OneAccount, t \in UserTypes : Signup(s, a[1], a[2], "pw", t)
        \/ Login(s, "alice", "pw")
        \/ Logout(s)
        \/ /\ nextTaskId <= MaxTasksData
           /\ \E title \in Titles : AddTask(s, title, "", Today, "work", "Low")
        \/ \E id \in 1..MaxTasksData, title \in Titles :
              Edit(s, id, title, "", Today, "work", "Low")

SpecTitles == InitIn({"final", "database", "with_mail"}) /\ [][NextTitles]_vars

\* C16: in every variant every stored task has a title that is not empty and
\* not only whitespace.
C16_TitlesNonEmpty ==
    \A t \in tasks : Strip(t.title) # <<>>

----------------------------------------------------------------------------
(* The specification of the sessions: two accounts of any tier, each with
   either password, logins with every username and password, logout, and a
   task *)

NextLogin ==
    \E s \in Sessions :
        \/ \E a \in PairedAccounts, p \in Passwords, t \in UserTypes :
              Signup(s, a[1], a[2], p, t)
        \/ \E u \in Usernames, p \in Passwords : Login(s, u, p)
        \/ Logout(s)
        \/ /\ nextTaskId <= MaxTasksUsers
           /\ AddTask(s, <<"t">>, "", Today, "work", "Low")
        \/ \E id \in 1..MaxTasksUsers : Delete(s, id)

SpecLogin == InitIn({"final", "database", "with_mail"}) /\ [][NextLogin]_vars

\* no stored row holds both the username and the password
NoSuchPair(username, password) ==
    ~\E r \in users : r.username = username /\ r.password = password

\* C17 as stated: a login attempt with a pair that no stored row holds leaves
\* the tables unchanged and the session logged out with no user_id and no
\* user_type set.
C17_FailedLoginUnset ==
    [][\A s \in Sessions, u \in Usernames, p \in Passwords :
          Login(s, u, p) /\ NoSuchPair(u, p) =>
              /\ users' = users /\ tasks' = tasks
              /\ ~session'[s].logged_in
              /\ session'[s].user_id = 0
              /\ session'[s].user_type = None]_vars

\* C17 as amended: such an attempt changes no table and no session: the
\* session stays logged out with the user_id and user_type it had, which are
\* unset in final.py and database.py and in with_mail.py are those of the user
\* who last logged out of it, if any; and a login attempt logs the session in
\* only as a stored row that holds both the username and the password.
C17_FailedLoginChangesNothing ==
    [][\A s \in Sessions, u \in Usernames, p \in Passwords :
          Login(s, u, p) =>
              /\ NoSuchPair(u, p) =>
                    /\ users' = users /\ tasks' = tasks /\ session' = session
                    /\ ~session'[s].logged_in
                    /\ msg' = LoginFailMsg
                    /\ variant # "with_mail" =>
                          session'[s].user_id = 0 /\ session'[s].user_type = None
              /\ session'[s].logged_in =>
                    \E r \in users :
                        /\ r.username = u /\ r.password = p
                        /\ session'[s].user_id = r.id
                        /\ session'[s].user_type = r.user_type]_vars

\* a refused attempt for a username stored with the other password, by a
\* password that another row holds, in a session that was logged in before
C17_Witness ==
    /\ variant = "with_mail"
    /\ msg = LoginFailMsg
    /\ \E r \in users, v \in users : r.username # v.username /\ r.password # v.password
    /\ \E s \in Sessions : ~session[s].logged_in /\ session[s].user_id # 0

----------------------------------------------------------------------------
(* Claims about the status change and the edit *)

\* C18: in database.py pressing Mark as Completed on an uncompleted task of
\* the logged-in user leaves that task completed and sends one 'Task Status
\* Updated' notification to the owner's email.
C18_MarkCompletedNotifies ==
    [][\A s \in Sessions, id \in 1..MaxTasksData :
          MarkCompleted(s, id) =>
              /\ \E t \in tasks' : t.id = id /\ t.completed
              /\ mail'.subject = "Task Status Updated"
              /\ mail'.to = EmailOf(session[s].user_id)]_vars

\* The specification of update_task: two accounts, tasks added with one set of
\* field values and updated, by Save Changes or by a direct call on any id, to
\* another
NextUpdate ==
    \/ /\ probe.stage = 0
       /\ \E s \in {"s1"} :
            \/ \E a \in PairedAccounts : Signup(s, a[1], a[2], "pw", "Premium")
            \/ \E u \in Usernames : Login(s, u, "pw")
            \/ Logout(s)
            \/ /\ nextTaskId <= MaxTasksData
               /\ AddTask(s, <<"t">>, "", Today, "work", "Low")
            \/ \E id \in 1..MaxTasksData : ToggleStatus(s, id)
            \/ \E id \in 1..MaxTasksData :
                  Edit(s, id, <<"u">>, "d", Tomorrow, "home", "High")
    \/ \E id \in 1..(MaxTasksData + 1) :
          UpdateTaskCall(id, <<"u">>, "d", Tomorrow, "home", "High")
    \/ UpdateTaskDone

SpecUpdate == InitIn({"final", "database"}) /\ [][NextUpdate]_vars

\* the row b after its five editable fields are overwritten
Overwritten(b) ==
    [b EXCEPT !.title = <<"u">>, !.description = "d", !.due_date = Tomorrow,
              !.category = "home", !.priority = "High"]

\* C19: update_task on a stored id overwrites title, description, due_date,
\* category and priority of that task and leaves its id, user_id and completed
\* flag and every other task as they were; on an id that is not stored it
\* changes nothing; it sends no notification.  The same holds of Save Changes.
C19_UpdateFrame ==
    [][\A id \in 1..(MaxTasksData + 1) :
          \/ UpdateTaskCall(id, <<"u">>, "d", Tomorrow, "home", "High")
          \/ \E s \in Sessions : Edit(s, id, <<"u">>, "d", Tomorrow, "home", "High")
          => /\ Cardinality(tasks') = Cardinality(tasks)
             /\ \A b \in tasks :
                   IF b.id = id THEN Overwritten(b) \in tasks' ELSE b \in tasks'
             /\ (~\E b \in tasks : b.id = id) => tasks' = tasks
             /\ users' = users
             /\ mail' = NoMail]_vars

\* a completed task has just been updated and another task of another user
\* has not
C19_Witness ==
    /\ probe.stage = 3
    /\ \E t \in tasks, k \in tasks :
          /\ t.id = probe.id /\ t.completed /\ t.title = <<"u">>
          /\ k.id # t.id /\ k.user_id # t.user_id /\ k.title = <<"t">>

----------------------------------------------------------------------------
(* Claims about the session *)

\* C20: in every variant, whenever a session has logged_in set its user_id is
\* the id of a stored user and its user_type is that user's stored tier.
C20_SessionMatchesUser ==
    \A s \in Sessions :
        session[s].logged_in =>
            \E u \in users :
                /\ u.id = session[s].user_id
                /\ u.user_type = session[s].user_type

\* with_mail.py: one session is logged in while the other, logged out, still
\* holds the user_id of another user of another tier; a task is stored
C20_Witness ==
    /\ variant = "with_mail"
    /\ tasks # {}
    /\ \E s \in Sessions, k \in Sessions :
          /\ session[s].logged_in
          /\ ~session[k].logged_in
          /\ session[k].user_id \notin {0, session[s].user_id}
          /\ session[k].user_type # session[s].user_type

----------------------------------------------------------------------------
(* The specification of isolation: two accounts, two sessions that can be
   logged in as different users at once, and every handler of final.py and
   database.py that takes a task id from the listing *)

NextIsolation ==
    \E s \in Sessions :
        \/ \E a \in PairedAccounts : Signup(s, a[1], a[2], "pw", "Premium")
        \/ \E u \in Usernames : Login(s, u, "pw")
        \/ Logout(s)
        \/ /\ nextTaskId <= MaxTasksData
           /\ AddTask(s, <<"t">>, "", Today, "work", "Low")
        \/ \E id \in 1..MaxTasksData : ToggleStatus(s, id)
        \/ \E id \in 1..MaxTasksData : MarkCompleted(s, id)
        \/ \E id \in 1..MaxTasksData :
              Edit(s, id, <<"u">>, "d", Tomorrow, "home", "High")
        \/ \E id \in 1..MaxTasksData : Delete(s, id)

SpecIsolation == InitIn({"final", "database"}) /\ [][NextIsolation]_vars

\* the rows of the table that the user of session s does not own
NotOwnedBy(table, s) == {t \in table : t.user_id # session[s].user_id}

\* C21: a status change, an edit or a delete issued from a session leaves
\* every task that the session's user does not own as it was, whatever the
\* other sessions did before; and after every step the listing of every
\* session holds only tasks whose user_id is the session's user.
C21_Isolation ==
    [][/\ \A s \in Sessions, id \in 1..MaxTasksData :
            \/ ToggleStatus(s, id)
            \/ MarkCompleted(s, id)
            \/ Edit(s, id, <<"u">>, "d", Tomorrow, "home", "High")
            \/ Delete(s, id)
            => /\ NotOwnedBy(tasks', s) = NotOwnedBy(tasks, s)
               /\ \E t \in tasks : t.id = id /\ t.user_id = session[s].user_id
       /\ \A s \in Sessions :
            session'[s].logged_in =>
                /\ \A t \in Listed(s)' : t.user_id = session'[s].user_id
                /\ \A f \in FilterOptions :
                      \A t \in ViewTasks(session[s].user_id, "All", f)' :
                          t.user_id = session'[s].user_id]_vars

\* the two sessions are logged in as different users, each user owns a task,
\* and one of the sessions has just edited its own
C21_Witness ==
    /\ msg = "Task updated successfully!"
    /\ session["s1"].logged_in /\ session["s2"].logged_in
    /\ session["s1"].user_id # session["s2"].user_id
    /\ \E t \in tasks, k \in tasks :
          /\ t.user_id = session["s1"].user_id /\ t.title = <<"u">>
          /\ k.user_id = session["s2"].user_id /\ k.title = <<"t">>

----------------------------------------------------------------------------
(* The sidebar of the dashboard *)

\* Python's truth value of a string
Truthy(str) == str # ""

\* Whether a run of the dashboard writes 'Tasks Added: n/10' to the sidebar.
\*   final.py:    user_type == "Regular" or "Restricted", which Python reads
\*                as (user_type == "Regular") or "Restricted"
\*   database.py: user_type == "Regular" or user_type == "Restricted"
\*   with_mail.py has no such line
CounterShown(user_type) ==
    CASE variant = "final" -> user_type = "Regular" \/ Truthy("Restricted")
      [] variant = "database" -> user_type = "Regular" \/ user_type = "Restricted"
      [] variant = "with_mail" -> FALSE

\* Whether the run shows 'Task limit reached for Regular users.'
LimitErrorShown(user_type, count) ==
    CounterShown(user_type) /\ count >= DashboardLimit

\* C22: in final.py and database.py the dashboard of a logged-in session
\* shows the counter only to a Regular or Restricted user, and the error
\* 'Task limit reached for Regular users.' only to such a user with at least
\* 10 tasks; a Premium user sees neither.
C22_CounterOnlyLimitedTiers ==
    \A s \in Sessions :
        session[s].logged_in =>
            /\ CounterShown(session[s].user_type) =>
                  session[s].user_type \in {"Regular", "Restricted"}
            /\ LimitErrorShown(session[s].user_type, get_task_count(session[s].user_id)) =>
                  /\ session[s].user_type \in {"Regular", "Restricted"}
                  /\ get_task_count(session[s].user_id) >= 10

====
